---- MODULE Spec2Model ----
(***************************************************************************)
(* github-docs-extractor: the output-location computation of bin/index.js  *)
(* (computeOutputRoot, buildOutputLocation) and the part of extract that   *)
(* drives it.  A string is a sequence of one-character strings, so that    *)
(* splitting, joining and prefix tests are computed character by           *)
(* character, as the JavaScript does.                                      *)
(***************************************************************************)
EXTENDS Naturals, Sequences, FiniteSets

VARIABLES
    paths,                \* options.paths, as an array of strings
    remote,               \* what the remote listing answers, per entry of paths
    pathConfigs,          \* extract: [documentPath, outputRoot] per entry of paths
    fetched,              \* extract: how many entries of pathConfigs are listed
    allFilesToDownload,   \* extract: the tagged files, in discovery order
    written,              \* the fs.writeFile calls made so far, in order
    pc,                   \* extract's position
    out,                  \* options.out
    fsCalls,              \* the file system and archiver calls completed, in order
    tree,                 \* fetchAllFiles: the repository subtree being listed
    stack,                \* fetchAllFiles: the calls in progress, innermost last
    raising,              \* fetchAllFiles: the error in flight, <<>> if none
    requests,             \* the directory paths getContent was asked to list
    warnings,             \* what console.warn and spinner.warn reported
    outcome,              \* how the outermost fetchAllFiles call ended
    argv,                 \* run: the command line
    repo,                 \* options.repo
    repoInfo,             \* extract: what parseRepoUrl returned
    zip,                  \* options.zip
    raised,               \* extract: the error raised inside its try, <<>> if none
    reported,             \* extract: what its catch wrote with console.error
    thrown,               \* run: the error launchCLI or extract threw, <<>> if none
    exits                 \* the codes process.exit was called with, in order

extractVars == <<paths, remote, pathConfigs, fetched, allFilesToDownload, written, pc,
                 out, fsCalls>>
fetchVars == <<tree, stack, raising, requests, warnings, outcome>>
runVars == <<argv, repo, repoInfo, zip, raised, reported, thrown, exits>>
vars == <<extractVars, fetchVars, runVars>>

----------------------------------------------------------------------------
(* Characters and the words the inputs are made of.                        *)

SLASH == "/"
BACKSLASH == "\\"
DASH == "-"

docs == <<"d", "o", "c", "s">>
doc == <<"d", "o", "c">>
documentation == <<"d", "o", "c", "u", "m", "e", "n", "t", "a", "t", "i", "o", "n">>
Docs == <<"D", "o", "c", "s">>
code == <<"c", "o", "d", "e">>
api == <<"a", "p", "i">>
md == <<".", "m", "d">>
dotdot == <<".", ".">>

\* JavaScript's undefined: a value that is no string of characters.
undefined == <<"undefined">>

\* ToBoolean of a string-or-undefined value: undefined and "" are falsy.
Truthy(v) == v # undefined /\ v # <<>>

----------------------------------------------------------------------------
(* The JavaScript string and array built-ins the two functions use.        *)

\* s.split(sep) for a one-character separator: the pieces between the
\* separators, empty pieces included; always at least one piece.
RECURSIVE SplitFrom(_, _, _, _)
SplitFrom(s, sep, i, cur) ==
    IF i > Len(s) THEN <<cur>>
    ELSE IF s[i] = sep THEN <<cur>> \o SplitFrom(s, sep, i + 1, <<>>)
    ELSE SplitFrom(s, sep, i + 1, Append(cur, s[i]))

split(s, sep) == SplitFrom(s, sep, 1, <<>>)

\* The array as it is: the filter left out.
filterNothing(arr) == arr

\* array.filter(Boolean) on an array of strings: the empty strings go.
filterBoolean(arr) == SelectSeq(arr, LAMBDA x : x # <<>>)

\* array.join(sep)
RECURSIVE join(_, _)
join(arr, sep) ==
    IF Len(arr) = 0 THEN <<>>
    ELSE IF Len(arr) = 1 THEN arr[1]
    ELSE arr[1] \o <<sep>> \o join(Tail(arr), sep)

\* s.startsWith(p)
startsWith(s, p) == Len(p) <= Len(s) /\ SubSeq(s, 1, Len(p)) = p

\* s.replaceAll(from, to) for one-character strings
replaceAll(s, from, to) == [i \in 1..Len(s) |-> IF s[i] = from THEN to ELSE s[i]]

\* s.slice(n): the string from (0-based) index n on
slice(s, n) == SubSeq(s, n + 1, Len(s))

\* array.slice(0, 2): the first two elements instead of the last two
sliceFirstTwo(arr) == IF Len(arr) <= 2 THEN arr ELSE SubSeq(arr, 1, 2)

\* array.slice(-2): the last two elements, or all of them if there are fewer
sliceLastTwo(arr) == IF Len(arr) <= 2 THEN arr ELSE SubSeq(arr, Len(arr) - 1, Len(arr))

----------------------------------------------------------------------------
(* bin/index.js                                                            *)

DEFAULT_OUTPUT_DIRECTORY_PATH == <<".", "/", "o", "u", "t", "p", "u", "t">>

\* The container names with "doc" forgotten.
containerNamesWithoutDoc == {docs, documentation}

DOC_CONTAINER_NAMES == {doc, docs, documentation}

\* DOC_CONTAINER_NAMES.has(segments[0]); segments[0] of an empty array is
\* undefined, which the set does not hold.
hasContainerFirst(segments) == Len(segments) > 0 /\ segments[1] \in DOC_CONTAINER_NAMES

\* computeOutputRoot with every container segment left out, not only a
\* leading one.
computeOutputRootElideAll(documentPath) ==
    LET segments == filterBoolean(split(documentPath, SLASH)) IN
    IF Len(segments) = 1
    THEN IF segments[1] \in DOC_CONTAINER_NAMES THEN undefined ELSE segments[1]
    ELSE LET effectiveSegments ==
                 SelectSeq(segments, LAMBDA x : x \notin DOC_CONTAINER_NAMES)
         IN  IF Len(effectiveSegments) = 1
             THEN effectiveSegments[1]
             ELSE join(sliceLastTwo(effectiveSegments), DASH)

\* computeOutputRoot with a path of no segment answered by undefined.
computeOutputRootAbsentWhenEmpty(documentPath) ==
    LET segments == filterBoolean(split(documentPath, SLASH)) IN
    IF Len(segments) = 0 THEN undefined
    ELSE IF Len(segments) = 1
    THEN IF segments[1] \in DOC_CONTAINER_NAMES THEN undefined ELSE segments[1]
    ELSE LET effectiveSegments ==
                 IF hasContainerFirst(segments) THEN Tail(segments) ELSE segments
         IN  IF Len(effectiveSegments) = 1
             THEN effectiveSegments[1]
             ELSE join(sliceLastTwo(effectiveSegments), DASH)

computeOutputRoot(documentPath) ==
    LET segments == filterBoolean(split(documentPath, SLASH)) IN
    IF Len(segments) = 1
    THEN IF segments[1] \in DOC_CONTAINER_NAMES THEN undefined ELSE segments[1]
    ELSE LET effectiveSegments ==
                 IF hasContainerFirst(segments) THEN Tail(segments) ELSE segments
         IN  IF Len(effectiveSegments) = 1
             THEN effectiveSegments[1]
             ELSE join(sliceLastTwo(effectiveSegments), DASH)

\* path.join(a, b) of node:path (POSIX): a + "/" + b, normalized: empty and "."
\* segments go, ".." takes the segment before it (or stays, at the start of a
\* relative path), a trailing separator is kept, "" becomes ".".
RECURSIVE normalizeSegments(_, _, _)
normalizeSegments(segs, acc, allowAboveRoot) ==
    IF Len(segs) = 0 THEN acc
    ELSE LET s == Head(segs) IN
         IF s = <<>> \/ s = <<".">>
         THEN normalizeSegments(Tail(segs), acc, allowAboveRoot)
         ELSE IF s = <<".", ".">>
         THEN IF Len(acc) > 0 /\ acc[Len(acc)] # <<".", ".">>
              THEN normalizeSegments(Tail(segs), SubSeq(acc, 1, Len(acc) - 1), allowAboveRoot)
              ELSE IF allowAboveRoot
                   THEN normalizeSegments(Tail(segs), Append(acc, s), allowAboveRoot)
                   ELSE normalizeSegments(Tail(segs), acc, allowAboveRoot)
         ELSE normalizeSegments(Tail(segs), Append(acc, s), allowAboveRoot)

pathNormalize(p) ==
    IF Len(p) = 0 THEN <<".">>
    ELSE LET isAbsolute == p[1] = SLASH
             trailing == p[Len(p)] = SLASH
             body == join(normalizeSegments(split(p, SLASH), <<>>, ~isAbsolute), SLASH)
             rel == IF Len(body) = 0
                    THEN (IF isAbsolute THEN <<>> ELSE <<".">>) \o (IF trailing /\ ~isAbsolute THEN <<SLASH>> ELSE <<>>)
                    ELSE body \o (IF trailing THEN <<SLASH>> ELSE <<>>)
         IN  IF isAbsolute THEN <<SLASH>> \o rel ELSE rel

\* The two strings with a "/" between them, not normalized.
plainJoin(a, b) == a \o <<SLASH>> \o b

pathJoin(a, b) ==
    IF Len(a) = 0 /\ Len(b) = 0 THEN <<".">>
    ELSE IF Len(a) = 0 THEN pathNormalize(b)
    ELSE IF Len(b) = 0 THEN pathNormalize(a)
    ELSE pathNormalize(a \o <<SLASH>> \o b)

\* The relative path with the prefix test left out: the length of the
\* documentation path and one more character are always cut off.
relativePathAlwaysStripped(filePath, documentPath) ==
    slice(replaceAll(filePath, BACKSLASH, SLASH), Len(documentPath) + 1)

\* The relative path with the replaceAll of line 65 left out.
relativePathUnnormalized(filePath, documentPath) ==
    IF startsWith(filePath, documentPath \o <<SLASH>>)
    THEN slice(filePath, Len(documentPath) + 1)
    ELSE filePath

\* buildOutputLocation, lines 65-68: the path relative to documentPath.
relativePathOf(filePath, documentPath) ==
    LET normalized == replaceAll(filePath, BACKSLASH, SLASH) IN
    IF startsWith(normalized, documentPath \o <<SLASH>>)
    THEN slice(normalized, Len(documentPath) + 1)
    ELSE normalized

\* lines 69-70: parts after parts.pop(), and the popped base filename.
folderPartsOf(filePath, documentPath) ==
    LET parts == split(relativePathOf(filePath, documentPath), SLASH) IN
    SubSeq(parts, 1, Len(parts) - 1)

\* parts.pop() giving undefined for an empty last part.
baseFilenameOrUndefined(filePath, documentPath) ==
    LET parts == split(relativePathOf(filePath, documentPath), SLASH) IN
    IF parts[Len(parts)] = <<>> THEN undefined ELSE parts[Len(parts)]

\* line 70: the popped base filename.
baseFilenameOf(filePath, documentPath) ==
    LET parts == split(relativePathOf(filePath, documentPath), SLASH) IN
    parts[Len(parts)]

\* The prefix parts with the push of outputRoot forgotten.
prefixPartsWithoutRoot(filePath, documentPath, outputRoot) ==
    folderPartsOf(filePath, documentPath)

\* The prefix parts with every folder equal to outputRoot taken out.
prefixPartsDedupEverywhere(filePath, documentPath, outputRoot) ==
    (IF Truthy(outputRoot) THEN <<outputRoot>> ELSE <<>>)
    \o SelectSeq(folderPartsOf(filePath, documentPath), LAMBDA x : x # outputRoot)

\* lines 71-79
prefixPartsOf(filePath, documentPath, outputRoot) ==
    LET parts == folderPartsOf(filePath, documentPath) IN
    (IF Truthy(outputRoot) THEN <<outputRoot>> ELSE <<>>)
    \o (IF Len(parts) > 0 /\ ~(Truthy(outputRoot) /\ parts[1] = outputRoot)
        THEN parts ELSE <<>>)

\* lines 81-83
folderPrefixOf(filePath, documentPath, outputRoot) ==
    LET prefixParts == prefixPartsOf(filePath, documentPath, outputRoot) IN
    IF Len(prefixParts) > 0 THEN join(prefixParts, DASH) \o <<DASH>> ELSE <<>>

\* The filename with the prefix put in front unconditionally.
alwaysPrefixed(filename, folderPrefix) == folderPrefix \o filename

\* lines 84-86
finalFilenameOf(filename, folderPrefix) ==
    IF startsWith(filename, folderPrefix) THEN filename ELSE folderPrefix \o filename

buildOutputLocation(filePath, documentPath, outputRoot, outputDirectory) ==
    [directory |-> IF Truthy(outputRoot)
                   THEN pathJoin(outputDirectory, outputRoot)
                   ELSE outputDirectory,
     filename |-> finalFilenameOf(baseFilenameOf(filePath, documentPath),
                                  folderPrefixOf(filePath, documentPath, outputRoot))]

----------------------------------------------------------------------------
(* The inputs: options.paths and what the repository holds.                *)

\* The strings of at most n tokens, a token being a word of W or a separator
\* of S, no two words adjacent (two adjacent words are one longer word).
RECURSIVE WordEnd(_, _, _)
RECURSIVE SepEnd(_, _, _)
WordEnd(W, S, n) ==
    IF n = 0 THEN {}
    ELSE {p \o w : p \in (IF n = 1 THEN {<<>>} ELSE SepEnd(W, S, n - 1)), w \in W}

SepEnd(W, S, n) ==
    IF n = 0 THEN {}
    ELSE {Append(p, s) : p \in (IF n = 1 THEN {<<>>}
                                ELSE WordEnd(W, S, n - 1) \cup SepEnd(W, S, n - 1)),
                         s \in S}

TokenPaths(W, S, n) == {<<>>} \cup UNION {WordEnd(W, S, k) \cup SepEnd(W, S, k) : k \in 1..n}

\* The sequences of at most n elements of S.
RECURSIVE SeqsUpTo(_, _)
SeqsUpTo(S, n) ==
    IF n = 0 THEN {<<>>}
    ELSE LET shorter == SeqsUpTo(S, n - 1) IN
         shorter \cup {Append(q, x) : q \in shorter, x \in S}

MaxPathTokens == 6
MaxPairTokens == 4
MaxListedTokens == 3
MaxFolders == 2
MaxPairFolders == 1
MaxGitSuffixes == 3
MaxAnyTokens == 2

\* One documentation path, of any spelling.
PathInputs == TokenPaths({docs, doc, documentation, Docs, code}, {SLASH, BACKSLASH}, MaxPathTokens)

\* Documentation paths configured two at a time.
PairInputs == TokenPaths({docs, code}, {SLASH}, MaxPairTokens)

\* Documentation paths whose files are listed.
ListedInputs == TokenPaths({docs, code, dotdot}, {SLASH, BACKSLASH}, MaxListedTokens)

FolderNames == {code, api}
BaseNames == {api \o md, code \o <<DASH>> \o api \o md}

\* The files the listing of documentPath can report: item.path is the path of
\* the listed directory as the repository spells it (its names joined by single
\* slashes), then the folders below it and the file's name.
RemoteFilesWithin(documentPath, depth) ==
    LET listed == filterBoolean(split(documentPath, SLASH)) IN
    {join(listed \o Append(folders, base), SLASH) :
        folders \in SeqsUpTo(FolderNames, depth), base \in BaseNames}

RemoteFiles(documentPath) == RemoteFilesWithin(documentPath, MaxFolders)

\* A listing of one of two documentation paths: no file or one file.
PairListings(documentPath) ==
    {<<>>} \cup {<<f>> : f \in RemoteFilesWithin(documentPath, MaxPairFolders)}

\* The same path as a Windows-style listing spells it.
WindowsStyle(filePath) == replaceAll(filePath, SLASH, BACKSLASH)

\* A listing of documentPath: no file or one file, in either spelling.
Listings(documentPath) ==
    LET F == RemoteFiles(documentPath) IN
    {<<>>} \cup {<<f>> : f \in F \cup {WindowsStyle(g) : g \in F}}

\* A listing of two different files.
TwoFileListings(documentPath) ==
    LET F == RemoteFiles(documentPath) IN {fg \in F \X F : fg[1] # fg[2]}

----------------------------------------------------------------------------
(* fetchAllFiles                                                           *)

mdx == <<".", "m", "d", "x">>
js == <<".", "j", "s">>

NOT_FOUND == 404
FORBIDDEN == 403

\* s.endsWith(suffix)
endsWith(s, suffix) ==
    Len(suffix) <= Len(s) /\ SubSeq(s, Len(s) - Len(suffix) + 1, Len(s)) = suffix

\* The test with the ".mdx" alternative left out.
isMarkdownOnly(item) == item.type = "file" /\ endsWith(item.name, md)

\* line 292
isMarkdownFile(item) ==
    item.type = "file" /\ (endsWith(item.name, md) \/ endsWith(item.name, mdx))

\* Every error taken for a missing path.
isAnyError(error) == TRUE

\* line 300: error.status === 404
isNotFound(error) == error.status = NOT_FOUND

\* The errors a listing request can fail with.
ListingErrors ==
    {[message |-> "Not Found", status |-> NOT_FOUND],
     [message |-> "Rate limit exceeded", status |-> FORBIDDEN]}

MaxItems == 3

\* The name of the entry at a position of a listing, before its extension.
Letters == <<"a", "b", "c", "d", "e", "f">>

\* The listings of n entries in all, the entries of sub-directories counted.
\* An entry is a file, a symbolic link or a directory; a directory carries
\* what a request for its path answers: an error (error = <<e>>) or its own
\* listing (error = <<>>).  Entries of one listing have different names.
RECURSIVE ListingsOfSize(_, _)
RECURSIVE EntriesOfSize(_, _)
EntriesOfSize(k, pos) ==
    LET name == <<Letters[pos]>> IN
    (IF k = 1
     THEN {[type |-> "file", name |-> name \o e, error |-> <<>>, contents |-> <<>>] :
               e \in {md, mdx, js}}
          \cup {[type |-> "symlink", name |-> name \o md, error |-> <<>>, contents |-> <<>>]}
          \cup {[type |-> "dir", name |-> name, error |-> <<e>>, contents |-> <<>>] :
                    e \in ListingErrors}
     ELSE {})
    \cup {[type |-> "dir", name |-> name, error |-> <<>>, contents |-> c] :
              c \in ListingsOfSize(k - 1, 1)}

ListingsOfSize(n, pos) ==
    IF n = 0 THEN {<<>>}
    ELSE UNION {{<<e>> \o rest : e \in EntriesOfSize(k, pos),
                                 rest \in ListingsOfSize(n - k, pos + 1)} : k \in 1..n}

\* What a request for the top directory answers.
RemoteTrees ==
    {[error |-> <<>>, contents |-> c] :
         c \in UNION {ListingsOfSize(n, 1) : n \in 0..MaxItems}}
    \cup {[error |-> <<e>>, contents |-> <<>>] : e \in ListingErrors}

\* The item of a listing as the API describes it.
itemOf(directoryPath, entry) ==
    [type |-> entry.type, name |-> entry.name,
     path |-> directoryPath \o <<SLASH>> \o entry.name]

\* A call of fetchAllFiles that has not yet sent its request.
callOf(directoryPath, remoteDirectory) ==
    [directoryPath |-> directoryPath, remoteDirectory |-> remoteDirectory,
     listed |-> FALSE, index |-> 1, files |-> <<>>]

top == stack[Len(stack)]

\* A call hands its files to its caller, which pushes them and goes on with
\* its next item (lines 289-290), or to the outside.
returnFiles(files) ==
    IF Len(stack) = 1
    THEN /\ stack' = <<>>
         /\ outcome' = [kind |-> "returned", files |-> files, error |-> <<>>]
    ELSE /\ LET caller == stack[Len(stack) - 1] IN
            stack' = [SubSeq(stack, 1, Len(stack) - 1) EXCEPT
                         ![Len(stack) - 1] =
                             [caller EXCEPT !.files = caller.files \o files,
                                            !.index = caller.index + 1]]
         /\ UNCHANGED outcome

\* line 284: the listing request is answered with the contents.
GetContent ==
    /\ Len(stack) > 0 /\ raising = <<>>
    /\ ~top.listed
    /\ top.remoteDirectory.error = <<>>
    /\ requests' = Append(requests, top.directoryPath)
    /\ stack' = [stack EXCEPT ![Len(stack)] = [top EXCEPT !.listed = TRUE]]
    /\ UNCHANGED <<tree, raising, warnings, outcome, extractVars, runVars>>

\* line 284: the listing request is rejected.
GetContentFails ==
    /\ Len(stack) > 0 /\ raising = <<>>
    /\ ~top.listed
    /\ top.remoteDirectory.error # <<>>
    /\ requests' = Append(requests, top.directoryPath)
    /\ raising' = top.remoteDirectory.error
    /\ UNCHANGED <<tree, stack, warnings, outcome, extractVars, runVars>>

\* lines 288-290: a directory item is listed by a nested call.
VisitDirectory ==
    /\ Len(stack) > 0 /\ raising = <<>>
    /\ top.listed /\ top.index <= Len(top.remoteDirectory.contents)
    /\ LET entry == top.remoteDirectory.contents[top.index]
           item == itemOf(top.directoryPath, entry)
       IN  /\ item.type = "dir"
           /\ stack' = Append(stack, callOf(item.path, entry))
    /\ UNCHANGED <<tree, raising, requests, warnings, outcome, extractVars, runVars>>

\* lines 292-294: a Markdown file is pushed.
PushFile ==
    /\ Len(stack) > 0 /\ raising = <<>>
    /\ top.listed /\ top.index <= Len(top.remoteDirectory.contents)
    /\ LET item == itemOf(top.directoryPath, top.remoteDirectory.contents[top.index])
       IN  /\ item.type # "dir"
           /\ isMarkdownFile(item)
           /\ stack' = [stack EXCEPT ![Len(stack)] =
                           [top EXCEPT !.files = Append(top.files, item),
                                       !.index = top.index + 1]]
    /\ UNCHANGED <<tree, raising, requests, warnings, outcome, extractVars, runVars>>

\* lines 287-295: any other item is passed over.
SkipItem ==
    /\ Len(stack) > 0 /\ raising = <<>>
    /\ top.listed /\ top.index <= Len(top.remoteDirectory.contents)
    /\ LET item == itemOf(top.directoryPath, top.remoteDirectory.contents[top.index])
       IN  /\ item.type # "dir"
           /\ ~isMarkdownFile(item)
           /\ stack' = [stack EXCEPT ![Len(stack)] = [top EXCEPT !.index = top.index + 1]]
    /\ UNCHANGED <<tree, raising, requests, warnings, outcome, extractVars, runVars>>

\* line 297: the loop is over.
ReturnFiles ==
    /\ Len(stack) > 0 /\ raising = <<>>
    /\ top.listed /\ top.index > Len(top.remoteDirectory.contents)
    /\ returnFiles(top.files)
    /\ UNCHANGED <<tree, raising, requests, warnings, extractVars, runVars>>

\* lines 299-304: the catch of the innermost call finds a missing path.
CatchNotFound ==
    /\ Len(stack) > 0 /\ raising # <<>>
    /\ isNotFound(raising[1])
    /\ warnings' = Append(warnings, top.directoryPath)
    /\ raising' = <<>>
    /\ returnFiles(<<>>)
    /\ UNCHANGED <<tree, requests, extractVars, runVars>>

\* lines 299-306: the catch of the innermost call throws the error again, into
\* the try of its caller.
CatchRethrow ==
    /\ Len(stack) > 0 /\ raising # <<>>
    /\ ~isNotFound(raising[1])
    /\ stack' = SubSeq(stack, 1, Len(stack) - 1)
    /\ IF Len(stack) = 1
       THEN /\ outcome' = [kind |-> "thrown", files |-> <<>>, error |-> raising]
            /\ raising' = <<>>
       ELSE UNCHANGED <<outcome, raising>>
    /\ UNCHANGED <<tree, requests, warnings, extractVars, runVars>>

\* line 27
DEFAULT_TO_ZIP == FALSE

\* The result of a pattern that does not match.
NoMatch == [ok |-> FALSE, owner |-> <<>>, repo |-> <<>>]

\* extract is called directly, with the default of --zip.
RunIdle ==
    /\ argv = <<>>
    /\ repo = <<>>
    /\ repoInfo = NoMatch
    /\ zip = DEFAULT_TO_ZIP
    /\ raised = <<>>
    /\ reported = <<>>
    /\ thrown = <<>>
    /\ exits = <<>>

\* No call of fetchAllFiles is modelled.
FetchIdle ==
    /\ tree = [error |-> <<>>, contents |-> <<>>]
    /\ stack = <<>>
    /\ raising = <<>>
    /\ requests = <<>>
    /\ warnings = <<>>
    /\ outcome = [kind |-> "none", files |-> <<>>, error |-> <<>>]

\* fetchAllFiles(owner, repo, 'docs') on any subtree.
InitFetch ==
    /\ tree \in RemoteTrees
    /\ stack = <<callOf(docs, tree)>>
    /\ raising = <<>>
    /\ requests = <<>>
    /\ warnings = <<>>
    /\ outcome = [kind |-> "none", files |-> <<>>, error |-> <<>>]
    /\ paths = <<docs>>
    /\ remote = << <<>> >>
    /\ pathConfigs = <<>>
    /\ fetched = 0
    /\ allFilesToDownload = <<>>
    /\ written = <<>>
    /\ out = DEFAULT_OUTPUT_DIRECTORY_PATH
    /\ fsCalls = <<>>
    /\ pc = "listing"
    /\ RunIdle

NextFetch ==
    \/ GetContent
    \/ GetContentFails
    \/ VisitDirectory
    \/ PushFile
    \/ SkipItem
    \/ ReturnFiles
    \/ CatchNotFound
    \/ CatchRethrow

SpecFetch == InitFetch /\ [][NextFetch]_vars

----------------------------------------------------------------------------
(* The file system calls of extract and the path of the archive            *)

\* process.cwd()
cwd == <<"/", "w", "o", "r", "k">>

\* p without its final "/" characters, a lone "/" kept.
RECURSIVE stripTrailingSlashes(_)
stripTrailingSlashes(p) ==
    IF Len(p) > 1 /\ p[Len(p)] = SLASH
    THEN stripTrailingSlashes(SubSeq(p, 1, Len(p) - 1))
    ELSE p

\* The index of the last "/" of p, 0 if it has none.
lastSlash(p) ==
    LET at == {i \in 1..Len(p) : p[i] = SLASH} IN
    IF at = {} THEN 0 ELSE CHOOSE i \in at : \A j \in at : j <= i

\* path.resolve(p): the absolute, normalized path, without a final "/".
pathResolve(p) ==
    stripTrailingSlashes(
        IF Len(p) > 0 /\ p[1] = SLASH THEN pathNormalize(p)
        ELSE IF Len(p) = 0 THEN cwd
        ELSE pathNormalize(cwd \o <<SLASH>> \o p))

\* path.dirname(p) of an absolute path
pathDirname(p) ==
    LET q == stripTrailingSlashes(p)
        cut == lastSlash(q)
    IN  IF cut <= 1 THEN <<SLASH>> ELSE SubSeq(q, 1, cut - 1)

\* path.basename(p): what follows the last "/", final "/" characters ignored.
pathBasename(p) ==
    LET q == stripTrailingSlashes(p) IN
    IF q = <<SLASH>> THEN <<>> ELSE SubSeq(q, lastSlash(q) + 1, Len(q))

\* The archive put inside the directory it archives.
zipFilePathInside(outputDirectory) ==
    pathJoin(pathResolve(outputDirectory),
             pathBasename(outputDirectory) \o <<".", "z", "i", "p">>)

\* lines 244-245
zipFilePath(outputDirectory) ==
    pathJoin(pathDirname(pathResolve(outputDirectory)),
             pathBasename(outputDirectory) \o <<".", "z", "i", "p">>)

\* A completed call: fs.emptyDir(path), fs.ensureDir(path),
\* fs.writeFile(path, content) or createZipArchive(path, to).
fsCall(op, path, to) == [op |-> op, path |-> path, to |-> to]

\* The write without the ensureDir before it.
writeOnly(directory, target) == <<fsCall("writeFile", target, <<>>)>>

\* lines 235-236
writeCalls(directory, target) ==
    <<fsCall("ensureDir", directory, <<>>), fsCall("writeFile", target, <<>>)>>

----------------------------------------------------------------------------
(* extract                                                                 *)

\* lines 182-186: one configuration per documentation path.
ComputePathConfigs ==
    /\ pc = "start"
    /\ pathConfigs' = [i \in 1..Len(paths) |->
                          [documentPath |-> paths[i],
                           outputRoot |-> computeOutputRoot(paths[i])]]
    /\ pc' = "listing"
    /\ UNCHANGED <<out, fsCalls>>
    /\ UNCHANGED <<paths, remote, fetched, allFilesToDownload, written>>
    /\ UNCHANGED <<fetchVars, runVars>>

\* Every file tagged with the first documentation path.
FetchFilesFirstConfig ==
    /\ pc = "listing"
    /\ fetched < Len(pathConfigs)
    /\ LET config == pathConfigs[1]
           filesInPath == remote[fetched + 1]
       IN  allFilesToDownload' = allFilesToDownload \o
               [k \in 1..Len(filesInPath) |->
                   [path |-> filesInPath[k],
                    documentPath |-> config.documentPath,
                    outputRoot |-> config.outputRoot]]
    /\ fetched' = fetched + 1
    /\ UNCHANGED <<out, fsCalls>>
    /\ UNCHANGED <<paths, remote, pathConfigs, written, pc>>
    /\ UNCHANGED <<fetchVars, runVars>>

\* lines 193-204: the files of the next documentation path, each tagged with
\* the path it was listed under and that path's output root.
FetchFiles ==
    /\ pc = "listing"
    /\ fetched < Len(pathConfigs)
    /\ LET config == pathConfigs[fetched + 1]
           filesInPath == remote[fetched + 1]
       IN  allFilesToDownload' = allFilesToDownload \o
               [k \in 1..Len(filesInPath) |->
                   [path |-> filesInPath[k],
                    documentPath |-> config.documentPath,
                    outputRoot |-> config.outputRoot]]
    /\ fetched' = fetched + 1
    /\ UNCHANGED <<out, fsCalls>>
    /\ UNCHANGED <<paths, remote, pathConfigs, written, pc>>
    /\ UNCHANGED <<fetchVars, runVars>>

\* The output directory emptied although nothing was found.
EmptyDirAnyway ==
    /\ pc = "listing"
    /\ fetched = Len(pathConfigs)
    /\ Len(allFilesToDownload) = 0
    /\ pc' = "done"
    /\ warnings' = Append(warnings, "No .md or .mdx files found")
    /\ fsCalls' = Append(fsCalls, fsCall("emptyDir", out, <<>>))
    /\ UNCHANGED out
    /\ UNCHANGED <<paths, remote, pathConfigs, fetched, allFilesToDownload, written>>
    /\ UNCHANGED <<tree, stack, raising, requests, outcome, runVars>>

\* lines 206-209: nothing to download, a warning and a normal return.
NoFilesFound ==
    /\ pc = "listing"
    /\ fetched = Len(pathConfigs)
    /\ Len(allFilesToDownload) = 0
    /\ pc' = "done"
    /\ warnings' = Append(warnings, "No .md or .mdx files found")
    /\ UNCHANGED <<out, fsCalls>>
    /\ UNCHANGED <<paths, remote, pathConfigs, fetched, allFilesToDownload, written>>
    /\ UNCHANGED <<tree, stack, raising, requests, outcome, runVars>>

\* lines 211-220: the output directory is emptied and the downloads start.
EmptyDir ==
    /\ pc = "listing"
    /\ fetched = Len(pathConfigs)
    /\ Len(allFilesToDownload) > 0
    /\ pc' = "downloading"
    /\ fsCalls' = Append(fsCalls, fsCall("emptyDir", out, <<>>))
    /\ UNCHANGED out
    /\ UNCHANGED <<paths, remote, pathConfigs, fetched, allFilesToDownload, written>>
    /\ UNCHANGED <<fetchVars, runVars>>

\* lines 222-237: the next file is fetched, located and written.
DownloadFile ==
    /\ pc = "downloading"
    /\ Len(written) < Len(allFilesToDownload)
    /\ LET file == allFilesToDownload[Len(written) + 1]
           location == buildOutputLocation(file.path, file.documentPath,
                                           file.outputRoot, out)
           target == pathJoin(location.directory, location.filename)
       IN  /\ written' = Append(written,
                  [source |-> file.path,
                   documentPath |-> file.documentPath,
                   outputRoot |-> file.outputRoot,
                   directory |-> location.directory,
                   filename |-> location.filename,
                   target |-> target])
           /\ fsCalls' = fsCalls \o writeCalls(location.directory, target)
    /\ UNCHANGED out
    /\ UNCHANGED <<paths, remote, pathConfigs, fetched, allFilesToDownload, pc>>
    /\ UNCHANGED <<fetchVars, runVars>>

\* lines 239-253: every file is written and no archive is asked for.
Finish ==
    /\ pc = "downloading"
    /\ Len(written) = Len(allFilesToDownload)
    /\ ~zip
    /\ pc' = "done"
    /\ UNCHANGED <<out, fsCalls>>
    /\ UNCHANGED <<paths, remote, pathConfigs, fetched, allFilesToDownload, written>>
    /\ UNCHANGED <<fetchVars, runVars>>

\* One documentation path and the listing the repository answers for it.
Init ==
    /\ paths \in {<<p>> : p \in ListedInputs}
    /\ remote \in {<<l>> : l \in Listings(paths[1])}
    /\ pathConfigs = <<>>
    /\ fetched = 0
    /\ allFilesToDownload = <<>>
    /\ written = <<>>
    /\ out = DEFAULT_OUTPUT_DIRECTORY_PATH
    /\ fsCalls = <<>>
    /\ pc = "start"
    /\ FetchIdle
    /\ RunIdle

Next ==
    \/ ComputePathConfigs
    \/ FetchFiles
    \/ NoFilesFound
    \/ EmptyDir
    \/ DownloadFile
    \/ Finish

Spec == Init /\ [][Next]_vars

\* The same run over a documentation path that holds two files.
InitTwoFiles ==
    /\ paths \in {<<p>> : p \in ListedInputs}
    /\ remote \in {<<l>> : l \in TwoFileListings(paths[1])}
    /\ pathConfigs = <<>>
    /\ fetched = 0
    /\ allFilesToDownload = <<>>
    /\ written = <<>>
    /\ out = DEFAULT_OUTPUT_DIRECTORY_PATH
    /\ fsCalls = <<>>
    /\ pc = "start"
    /\ FetchIdle
    /\ RunIdle

NextTwoFiles ==
    \/ ComputePathConfigs
    \/ FetchFiles
    \/ EmptyDir
    \/ DownloadFile
    \/ Finish

SpecTwoFiles == InitTwoFiles /\ [][NextTwoFiles]_vars

\* The resolution of the configured paths alone: one path of any spelling, or
\* two paths.
InitPaths ==
    /\ paths \in {<<p>> : p \in PathInputs} \cup (PairInputs \X PairInputs)
    /\ remote = [i \in 1..Len(paths) |-> <<>>]
    /\ pathConfigs = <<>>
    /\ fetched = 0
    /\ allFilesToDownload = <<>>
    /\ written = <<>>
    /\ out = DEFAULT_OUTPUT_DIRECTORY_PATH
    /\ fsCalls = <<>>
    /\ pc = "start"
    /\ FetchIdle
    /\ RunIdle

NextPaths == ComputePathConfigs

SpecPaths == InitPaths /\ [][NextPaths]_vars

\* The two core functions called on their own, as the tests call them, with
\* any strings: empty, made of separators only, without a separator, ending
\* in a separator.
AnyStrings == TokenPaths({docs, api \o md}, {SLASH, BACKSLASH}, MaxAnyTokens)

\* The values of the outputRoot argument: absent, empty, a name, a separator.
AnyRoots == {undefined, <<>>, docs, <<SLASH>>}

InitCore ==
    /\ paths \in {<<p>> : p \in AnyStrings}
    /\ remote \in {<< <<f>> >> : f \in AnyStrings}
    /\ pathConfigs = <<>>
    /\ fetched = 0
    /\ allFilesToDownload = <<>>
    /\ written = <<>>
    /\ out \in {<<>>, DEFAULT_OUTPUT_DIRECTORY_PATH}
    /\ fsCalls = <<>>
    /\ pc = "start"
    /\ FetchIdle
    /\ RunIdle

\* lines 64-92: buildOutputLocation(filePath, documentPath, outputRoot,
\* outputDirectory) called once, with any outputRoot.
BuildOutputLocation ==
    /\ written = <<>>
    /\ \E outputRoot \in AnyRoots :
           LET location == buildOutputLocation(remote[1][1], paths[1], outputRoot, out) IN
           written' = <<[source |-> remote[1][1],
                         documentPath |-> paths[1],
                         outputRoot |-> outputRoot,
                         directory |-> location.directory,
                         filename |-> location.filename]>>
    /\ UNCHANGED <<out, fsCalls>>
    /\ UNCHANGED <<paths, remote, pathConfigs, fetched, allFilesToDownload, pc>>
    /\ UNCHANGED <<fetchVars, runVars>>

NextCore ==
    \/ ComputePathConfigs
    \/ BuildOutputLocation

SpecCore == InitCore /\ [][NextCore]_vars

----------------------------------------------------------------------------
(* launchCLI, parseRepoUrl, the failures of extract, run                   *)

node == <<"n", "o", "d", "e">>
gde == <<"g", "d", "e">>
repoFlag == <<"-", "-", "r", "e", "p", "o">>
pathsFlag == <<"-", "-", "p", "a", "t", "h", "s">>
outFlag == <<"-", "-", "o", "u", "t">>
zipFlag == <<"-", "-", "z", "i", "p">>
helpFlag == <<"-", "-", "h", "e", "l", "p">>
versionFlag == <<"-", "-", "v", "e", "r", "s", "i", "o", "n">>

httpsPrefix ==
    <<"h", "t", "t", "p", "s", ":", "/", "/",
      "g", "i", "t", "h", "u", "b", ".", "c", "o", "m", "/">>
sshPrefix == <<"g", "i", "t", "@", "g", "i", "t", "h", "u", "b", ".", "c", "o", "m", ":">>
ownerRepo == <<"o", "w", "n", "e", "r", "/", "r", "e", "p", "o">>

\* line 25
DEFAULT_DOCS_PATH == docs

\* The value that follows a flag on the command line, or the default.
optionValue(args, flag, default) ==
    LET at == {i \in 1..(Len(args) - 1) : args[i] = flag} IN
    IF at = {} THEN default ELSE args[1 + CHOOSE i \in at : \A j \in at : i <= j]

\* The values of a variadic option: the arguments that follow the flag, up to
\* the next option.
RECURSIVE valuesFrom(_, _)
valuesFrom(args, i) ==
    IF i > Len(args) \/ (Len(args[i]) > 0 /\ args[i][1] = DASH) THEN <<>>
    ELSE <<args[i]>> \o valuesFrom(args, i + 1)

optionValues(args, flag) ==
    LET at == {i \in 1..Len(args) : args[i] = flag} IN
    IF at = {} THEN <<>> ELSE valuesFrom(args, 1 + CHOOSE i \in at : \A j \in at : i <= j)

has(args, flag) == \E i \in 1..Len(args) : args[i] = flag

\* lines 321-336: what Commander makes of the command line.  It prints the
\* help or the version and ends the process with code 0, ends it with code 1
\* when the required --repo is missing, and otherwise hands out the options.
parseArguments(args) ==
    IF Len(args) <= 2 \/ has(args, helpFlag) \/ has(args, versionFlag)
    THEN [kind |-> "exit", code |-> 0]
    ELSE IF ~has(args, repoFlag) \/ args[Len(args)] = repoFlag
    THEN [kind |-> "exit", code |-> 1]
    ELSE [kind |-> "options",
          repo |-> optionValue(args, repoFlag, undefined),
          out |-> optionValue(args, outFlag, DEFAULT_OUTPUT_DIRECTORY_PATH),
          paths |-> IF optionValues(args, pathsFlag) = <<>>
                    THEN <<DEFAULT_DOCS_PATH>>
                    ELSE optionValues(args, pathsFlag),
          zip |-> IF has(args, zipFlag) THEN TRUE ELSE DEFAULT_TO_ZIP]

dotGit == <<".", "g", "i", "t">>

\* The string as it is: the i flag of the patterns left out.
keepCase(s) == s

\* String.prototype.toLowerCase, for the letters the inputs are written with.
toLowerCase(s) ==
    LET lower(c) ==
            CASE c = "H" -> "h" [] c = "T" -> "t" [] c = "P" -> "p" [] c = "S" -> "s"
              [] c = "G" -> "g" [] c = "I" -> "i" [] c = "U" -> "u" [] c = "B" -> "b"
              [] c = "C" -> "c" [] c = "O" -> "o" [] c = "M" -> "m" [] OTHER -> c
    IN  [i \in 1..Len(s) |-> lower(s[i])]

\* The end of both patterns, (?:\.git)?\/?$ or (?:\.git)?$, under the i flag.
matchesEnd(rest, slashAllowed) ==
    \/ toLowerCase(rest) \in {<<>>, dotGit}
    \/ slashAllowed /\ toLowerCase(rest) \in {<<SLASH>>, dotGit \o <<SLASH>>}

\* ([^/]+)\/([^/]+?) and the end of the pattern, on what follows the host:
\* the owner runs to the first "/", the repository group is the shortest
\* non-empty run without "/" after which the end of the pattern matches.
matchOwnerAndRepo(rest, slashAllowed) ==
    LET slashes == {i \in 1..Len(rest) : rest[i] = SLASH}
        cut == IF slashes = {} THEN 0 ELSE CHOOSE i \in slashes : \A j \in slashes : i <= j
        after == SubSeq(rest, cut + 1, Len(rest))
        lengths == {n \in 1..Len(after) :
                        /\ \A i \in 1..n : after[i] # SLASH
                        /\ matchesEnd(SubSeq(after, n + 1, Len(after)), slashAllowed)}
    IN  IF cut <= 1 \/ lengths = {} THEN NoMatch
        ELSE [ok |-> TRUE, owner |-> SubSeq(rest, 1, cut - 1),
              repo |-> SubSeq(after, 1, CHOOSE n \in lengths : \A m \in lengths : n <= m)]

\* match[2].replace(/\.git$/i, '')
withoutDotGit(name) ==
    IF Len(name) >= 4 /\ toLowerCase(SubSeq(name, Len(name) - 3, Len(name))) = dotGit
    THEN SubSeq(name, 1, Len(name) - 4) ELSE name

\* lines 350-371; ok = FALSE stands for the error thrown at line 367.
parseRepoUrl(url) ==
    LET https == IF startsWith(toLowerCase(url), httpsPrefix)
                 THEN matchOwnerAndRepo(slice(url, Len(httpsPrefix)), TRUE)
                 ELSE NoMatch
        match == IF https.ok THEN https
                 ELSE IF startsWith(toLowerCase(url), sshPrefix)
                 THEN matchOwnerAndRepo(slice(url, Len(sshPrefix)), FALSE)
                 ELSE NoMatch
    IN  IF match.ok THEN [match EXCEPT !.repo = withoutDotGit(match.repo)] ELSE NoMatch

\* Every client error taken for the rate limit.
isClientError(error) == error.status \in {FORBIDDEN, NOT_FOUND}

\* line 259: error.status === 403
isRateLimit(error) == error.status = FORBIDDEN

\* An error that has no status property.
NoStatus == 0

\* The errors fetchAllFiles throws: those of a listing request, the 404 it
\* answers itself excepted.
FetchErrors ==
    {[message |-> "Rate limit exceeded", status |-> FORBIDDEN],
     [message |-> "API Error", status |-> NoStatus]}

\* The errors the request for a file's content can fail with.
ContentErrors ==
    {[message |-> "Rate limit exceeded", status |-> FORBIDDEN],
     [message |-> "Not Found", status |-> NOT_FOUND],
     [message |-> "API Error", status |-> NoStatus]}

\* The errors of the file system and of the archiver; they have no status.
EmptyDirError == [message |-> "EACCES: permission denied", status |-> NoStatus]
WriteFileError == [message |-> "ENOSPC: no space left on device", status |-> NoStatus]
ArchiveError == [message |-> "archive failed", status |-> NoStatus]

InvalidUrlError ==
    [message |-> "Invalid GitHub repository URL.", status |-> NoStatus]

LaunchError == [message |-> "launch failed", status |-> NoStatus]

\* lines 315-337: the options are parsed and returned.
LaunchCLI ==
    /\ pc = "launch"
    /\ LET parsed == parseArguments(argv) IN
       /\ parsed.kind = "options"
       /\ repo' = parsed.repo
       /\ paths' = parsed.paths
       /\ zip' = parsed.zip
       /\ out' = parsed.out
    /\ pc' = "extract"
    /\ UNCHANGED fsCalls
    /\ UNCHANGED <<remote, pathConfigs, fetched, allFilesToDownload, written,
                   fetchVars, argv, repoInfo, raised, reported, thrown, exits>>

\* lines 330-334: Commander ends the process inside program.help() or
\* program.parse(); nothing of run is executed after it.
LaunchCLIExits ==
    /\ pc = "launch"
    /\ LET parsed == parseArguments(argv) IN
       /\ parsed.kind = "exit"
       /\ exits' = Append(exits, parsed.code)
    /\ pc' = "exited"
    /\ UNCHANGED <<out, fsCalls>>
    /\ UNCHANGED <<paths, remote, pathConfigs, fetched, allFilesToDownload, written,
                   fetchVars, argv, repoInfo, repo, zip, raised, reported, thrown>>

\* lines 338-341: an exception inside launchCLI is logged and thrown again.
LaunchCLIThrows ==
    /\ pc = "launch"
    /\ thrown' = <<LaunchError>>
    /\ pc' = "launchThrown"
    /\ UNCHANGED <<out, fsCalls>>
    /\ UNCHANGED <<paths, remote, pathConfigs, fetched, allFilesToDownload, written,
                   fetchVars, argv, repoInfo, repo, zip, raised, reported, exits>>

\* line 180: the repository URL is valid.
ParseRepoUrl ==
    /\ pc = "extract"
    /\ parseRepoUrl(repo).ok
    /\ repoInfo' = parseRepoUrl(repo)
    /\ pc' = "start"
    /\ UNCHANGED <<out, fsCalls>>
    /\ UNCHANGED <<paths, remote, pathConfigs, fetched, allFilesToDownload, written,
                   fetchVars, argv, repo, zip, raised, reported, thrown, exits>>

\* lines 180, 364-368: the repository URL is invalid; the error leaves
\* extract before its try.
ParseRepoUrlThrows ==
    /\ pc = "extract"
    /\ ~parseRepoUrl(repo).ok
    /\ thrown' = <<InvalidUrlError>>
    /\ pc' = "extractThrown"
    /\ UNCHANGED <<out, fsCalls>>
    /\ UNCHANGED <<paths, remote, pathConfigs, fetched, allFilesToDownload, written,
                   fetchVars, argv, repoInfo, repo, zip, raised, reported, exits>>

\* The error raised after the files written so far are removed.
raiseAndCleanUp(error) ==
    /\ raised' = <<error>>
    /\ pc' = "catch"
    /\ written' = <<>>
    /\ fsCalls' = IF fsCalls = <<>> THEN <<>> ELSE <<fsCalls[1]>>
    /\ UNCHANGED out
    /\ UNCHANGED <<paths, remote, pathConfigs, fetched, allFilesToDownload,
                   fetchVars, argv, repoInfo, repo, zip, reported, thrown, exits>>

\* An error is raised inside the try of extract.
raise(error) ==
    /\ raised' = <<error>>
    /\ pc' = "catch"
    /\ UNCHANGED <<out, fsCalls>>
    /\ UNCHANGED <<paths, remote, pathConfigs, fetched, allFilesToDownload, written,
                   fetchVars, argv, repoInfo, repo, zip, reported, thrown, exits>>

\* line 195: fetchAllFiles throws.
FetchFilesThrows ==
    /\ pc = "listing"
    /\ fetched < Len(pathConfigs)
    /\ \E error \in FetchErrors : raise(error)

\* line 214: fs.emptyDir fails.
EmptyDirThrows ==
    /\ pc = "listing"
    /\ fetched = Len(pathConfigs)
    /\ Len(allFilesToDownload) > 0
    /\ raise(EmptyDirError)

\* line 225: the request for the content of the next file fails.
GetContentThrows ==
    /\ pc = "downloading"
    /\ Len(written) < Len(allFilesToDownload)
    /\ \E error \in ContentErrors : raise(error)

\* lines 235-236: fs.ensureDir or fs.writeFile fails.
WriteFileThrows ==
    /\ pc = "downloading"
    /\ Len(written) < Len(allFilesToDownload)
    /\ raise(WriteFileError)

\* lines 242-253: the archive is created.
CreateZipArchive ==
    /\ pc = "downloading"
    /\ Len(written) = Len(allFilesToDownload)
    /\ zip
    /\ pc' = "done"
    /\ fsCalls' = Append(fsCalls, fsCall("createZipArchive", out, zipFilePath(out)))
    /\ UNCHANGED out
    /\ UNCHANGED <<paths, remote, pathConfigs, fetched, allFilesToDownload, written,
                   fetchVars, runVars>>

\* lines 246, 162: the archiver fails.
CreateZipArchiveThrows ==
    /\ pc = "downloading"
    /\ Len(written) = Len(allFilesToDownload)
    /\ zip
    /\ raise(ArchiveError)

\* lines 255-271: the catch of extract reports the error, adds the rate-limit
\* guidance for a status of 403 and throws the error again.
ExtractCatch ==
    /\ pc = "catch"
    /\ reported' = reported \o <<"An error occurred:", raised[1].message>>
                   \o (IF isRateLimit(raised[1])
                       THEN <<"API Rate Limit Exceeded", "export GITHUB_TOKEN">>
                       ELSE <<>>)
    /\ thrown' = raised
    /\ pc' = "extractThrown"
    /\ UNCHANGED <<out, fsCalls>>
    /\ UNCHANGED <<paths, remote, pathConfigs, fetched, allFilesToDownload, written,
                   fetchVars, argv, repoInfo, repo, zip, raised, exits>>

\* line 383: launchCLI and extract returned.
ExitSuccess ==
    /\ pc = "done"
    /\ exits = <<>>
    /\ exits' = Append(exits, 0)
    /\ UNCHANGED <<extractVars, fetchVars, argv, repoInfo, repo, zip, raised, reported, thrown>>

\* The catch of run calling exit with the code of a success.
ExitFailureAsSuccess ==
    /\ pc \in {"launchThrown", "extractThrown"}
    /\ exits = <<>>
    /\ exits' = Append(exits, 0)
    /\ UNCHANGED <<extractVars, fetchVars, argv, repoInfo, repo, zip, raised, reported, thrown>>

\* lines 385-387: launchCLI or extract threw.
ExitFailure ==
    /\ pc \in {"launchThrown", "extractThrown"}
    /\ exits = <<>>
    /\ exits' = Append(exits, 1)
    /\ UNCHANGED <<extractVars, fetchVars, argv, repoInfo, repo, zip, raised, reported, thrown>>

\* The command lines: none, --help, --version, no --repo, --repo with one of
\* a few URLs, and --repo with a valid URL and any of --paths (one or two
\* paths, the second a subtree of the first or not), --out and --zip.
ArgvInputs ==
    LET base == <<node, gde>>
        url == httpsPrefix \o ownerRepo
        urls == {httpsPrefix \o ownerRepo \o <<SLASH>>, sshPrefix \o ownerRepo,
                 ownerRepo, httpsPrefix \o <<"o", "w", "n", "e", "r">>}
        nested == docs \o <<SLASH>> \o code
    IN  {base, base \o <<helpFlag>>, base \o <<versionFlag>>, base \o <<zipFlag>>}
        \cup {base \o <<repoFlag, u>> : u \in urls}
        \cup {base \o <<repoFlag, url>> \o p \o o \o z :
                  p \in {<<>>, <<pathsFlag, nested>>, <<pathsFlag, docs, nested>>,
                         <<pathsFlag, nested, code>>},
                  o \in {<<>>, <<outFlag, <<"o", "u", "t", "/">> \o docs \o <<SLASH>>>>,
                         <<outFlag, <<SLASH>>>>},
                  z \in {<<>>, <<zipFlag>>}}

\* The repository URLs: a host in either spelling, an owner, a repository
\* name that may be empty, ".git" up to MaxGitSuffixes times in either case,
\* and an end.
RECURSIVE Repeated(_, _)
Repeated(s, n) == IF n = 0 THEN <<>> ELSE s \o Repeated(s, n - 1)

UrlInputs ==
    {host \o <<"o", "w", "n", "e", "r", "/">> \o name \o suffix \o end :
        host \in {httpsPrefix, sshPrefix, <<>>,
                  <<"H", "T", "T", "P", "S", ":", "/", "/",
                    "G", "I", "T", "H", "U", "B", ".", "C", "O", "M", "/">>,
                  <<"h", "t", "t", "p", ":", "/", "/",
                    "g", "i", "t", "h", "u", "b", ".", "c", "o", "m", "/">>},
        name \in {<<"r", "e", "p", "o">>, <<>>},
        suffix \in {Repeated(dotGit, n) : n \in 0..MaxGitSuffixes}
                   \cup {<<".", "G", "I", "T">>},
        end \in {<<>>, <<SLASH>>, <<SLASH, "x">>}}

\* run(argv), with the listing each documentation path will be answered with.
InitRun ==
    /\ argv \in ArgvInputs
    /\ LET parsed == parseArguments(argv) IN
       remote \in IF parsed.kind # "options" THEN {<< <<>> >>}
                  ELSE IF Len(parsed.paths) = 1
                  THEN {<<l>> : l \in Listings(parsed.paths[1])}
                  ELSE PairListings(parsed.paths[1]) \X PairListings(parsed.paths[2])
    /\ paths = <<>>
    /\ pathConfigs = <<>>
    /\ fetched = 0
    /\ allFilesToDownload = <<>>
    /\ written = <<>>
    /\ out = DEFAULT_OUTPUT_DIRECTORY_PATH
    /\ fsCalls = <<>>
    /\ pc = "launch"
    /\ FetchIdle
    /\ repo = <<>>
    /\ repoInfo = NoMatch
    /\ zip = DEFAULT_TO_ZIP
    /\ raised = <<>>
    /\ reported = <<>>
    /\ thrown = <<>>
    /\ exits = <<>>

NextRun ==
    \/ LaunchCLI
    \/ LaunchCLIExits
    \/ LaunchCLIThrows
    \/ ParseRepoUrl
    \/ ParseRepoUrlThrows
    \/ ComputePathConfigs
    \/ FetchFiles
    \/ FetchFilesThrows
    \/ NoFilesFound
    \/ EmptyDir
    \/ EmptyDirThrows
    \/ DownloadFile
    \/ GetContentThrows
    \/ WriteFileThrows
    \/ Finish
    \/ CreateZipArchive
    \/ CreateZipArchiveThrows
    \/ ExtractCatch
    \/ ExitSuccess
    \/ ExitFailure

SpecRun == InitRun /\ [][NextRun]_vars

\* run(argv) up to parseRepoUrl, for any repository URL.
InitUrl ==
    /\ argv \in {<<node, gde, repoFlag, url>> : url \in UrlInputs}
    /\ remote = << <<>> >>
    /\ paths = <<>>
    /\ pathConfigs = <<>>
    /\ fetched = 0
    /\ allFilesToDownload = <<>>
    /\ written = <<>>
    /\ out = DEFAULT_OUTPUT_DIRECTORY_PATH
    /\ fsCalls = <<>>
    /\ pc = "launch"
    /\ FetchIdle
    /\ repo = <<>>
    /\ repoInfo = NoMatch
    /\ zip = DEFAULT_TO_ZIP
    /\ raised = <<>>
    /\ reported = <<>>
    /\ thrown = <<>>
    /\ exits = <<>>

NextUrl ==
    \/ LaunchCLI
    \/ ParseRepoUrl
    \/ ParseRepoUrlThrows

SpecUrl == InitUrl /\ [][NextUrl]_vars

----------------------------------------------------------------------------
(* Properties of computeOutputRoot, over the configurations extract builds *)

ReservedNames ==
    {<<"d", "o", "c">>, <<"d", "o", "c", "s">>,
     <<"d", "o", "c", "u", "m", "e", "n", "t", "a", "t", "i", "o", "n">>}

\* The non-empty pieces of a path between its "/" characters.
SegmentsOf(p) == SelectSeq(split(p, SLASH), LAMBDA x : Len(x) > 0)

Configs == 1..Len(pathConfigs)

\* C1: a documentation path of exactly one non-empty segment s resolves to
\* undefined when s is exactly doc, docs or documentation, and to s itself
\* otherwise (Docs included).
C1_SingleSegment ==
    \A i \in Configs :
        LET segs == SegmentsOf(pathConfigs[i].documentPath) IN
        Len(segs) = 1 =>
            pathConfigs[i].outputRoot =
                (IF segs[1] \in ReservedNames THEN undefined ELSE segs[1])

C1_Witness ==
    /\ Len(pathConfigs) = 2
    /\ SegmentsOf(pathConfigs[1].documentPath) = <<docs>>
    /\ pathConfigs[1].outputRoot = undefined
    /\ SegmentsOf(pathConfigs[2].documentPath) = <<code>>
    /\ pathConfigs[2].outputRoot = code

\* C2: with two or more segments the first one is dropped exactly when it is
\* a container name; one remaining segment is the result, otherwise the last
\* two remaining segments joined by one hyphen, in their order.
C2_MultiSegment ==
    \A i \in Configs :
        LET segs == SegmentsOf(pathConfigs[i].documentPath)
            eff == IF segs[1] \in ReservedNames THEN Tail(segs) ELSE segs
            n == Len(eff)
        IN  Len(segs) >= 2 =>
                pathConfigs[i].outputRoot =
                    (IF n = 1 THEN eff[1] ELSE eff[n - 1] \o <<DASH>> \o eff[n])

C2_Witness ==
    \E i \in Configs :
        LET segs == SegmentsOf(pathConfigs[i].documentPath) IN
        /\ Len(segs) = 3
        /\ segs[1] \notin ReservedNames
        /\ segs[2] # segs[3]
        /\ pathConfigs[i].outputRoot = segs[2] \o <<DASH>> \o segs[3]

\* C3: two documentation paths with the same non-empty segments resolve to
\* the same output root, whatever their leading, trailing or repeated "/".
C3_SeparatorInsensitive ==
    \A i, j \in Configs :
        SegmentsOf(pathConfigs[i].documentPath) = SegmentsOf(pathConfigs[j].documentPath)
            => pathConfigs[i].outputRoot = pathConfigs[j].outputRoot

C3_Witness ==
    /\ Len(pathConfigs) = 2
    /\ pathConfigs[1].documentPath = docs \o <<SLASH>> \o code
    /\ pathConfigs[2].documentPath = docs \o <<SLASH, SLASH>> \o code
    /\ pathConfigs[1].outputRoot = code
    /\ pathConfigs[2].outputRoot = code

\* C4: a documentation path written with backslashes resolves to the output
\* root of the same path written with forward slashes.
C4_BackslashAsSeparator ==
    \A i \in Configs :
        LET forward == replaceAll(pathConfigs[i].documentPath, BACKSLASH, SLASH) IN
        Len(SegmentsOf(forward)) >= 1 =>
            pathConfigs[i].outputRoot = computeOutputRoot(forward)

\* C7: two configured documentation paths that name different directories
\* (different segments) never resolve to the same output root.
C7_DistinctRoots ==
    \A i, j \in Configs :
        SegmentsOf(pathConfigs[i].documentPath) # SegmentsOf(pathConfigs[j].documentPath)
            => pathConfigs[i].outputRoot # pathConfigs[j].outputRoot

----------------------------------------------------------------------------
(* Properties of buildOutputLocation, over the files extract writes        *)

Writes == 1..Len(written)

\* t occurs in s
Contains(s, t) ==
    \E i \in 0..(Len(s) - Len(t)) : SubSeq(s, i + 1, i + Len(t)) = t

\* filePath with "/" for every "\"
Forward(filePath) == [i \in 1..Len(filePath) |->
                         IF filePath[i] = BACKSLASH THEN SLASH ELSE filePath[i]]

\* The file is documentPath + "/" + f1/.../fk/base.
IsUnder(filePath, documentPath) ==
    /\ Len(filePath) > Len(documentPath)
    /\ SubSeq(Forward(filePath), 1, Len(documentPath) + 1) = documentPath \o <<SLASH>>

\* f1..fk of such a file
FoldersUnder(filePath, documentPath) ==
    LET rel == split(SubSeq(Forward(filePath), Len(documentPath) + 2, Len(filePath)), SLASH)
    IN  SubSeq(rel, 1, Len(rel) - 1)

\* C5: for a file documentPath/f1/.../fk/base the filename holds every folder
\* name f1..fk, in order, joined by hyphens, before the base filename.
C5_FullRelativePath ==
    \A k \in Writes :
        LET w == written[k]
            folders == FoldersUnder(w.source, w.documentPath)
        IN  (IsUnder(w.source, w.documentPath) /\ Len(folders) > 0) =>
                Contains(w.filename, join(folders, DASH) \o <<DASH>>)

\* C6: two different source files of one run are never given the same
\* directory and filename.
C6_NoOverwrite ==
    \A a, b \in Writes :
        (a # b /\ written[a].source # written[b].source) =>
            <<written[a].directory, written[a].filename>> #
            <<written[b].directory, written[b].filename>>

\* C8: with an output root, the filename starts with the root and a hyphen.
C8_RootFirst ==
    \A k \in Writes :
        LET w == written[k] IN
        (w.outputRoot # undefined /\ Len(w.outputRoot) > 0) =>
            /\ Len(w.filename) > Len(w.outputRoot)
            /\ SubSeq(w.filename, 1, Len(w.outputRoot) + 1) = w.outputRoot \o <<DASH>>

\* A written file with an output root whose folders were appended.
C8_Witness ==
    \E k \in Writes :
        LET w == written[k] IN
        /\ w.outputRoot = code
        /\ folderPartsOf(w.source, w.documentPath) = <<api>>
        /\ w.filename = code \o <<DASH>> \o api \o <<DASH>> \o api \o md

\* C9: a base filename that begins with the whole folder prefix is the
\* filename, unchanged; any other base filename, one that begins with a part
\* of the prefix included, gets the whole prefix in front.
C9_NoDoublePrefix ==
    \A k \in Writes :
        LET w == written[k]
            base == baseFilenameOf(w.source, w.documentPath)
            prefix == folderPrefixOf(w.source, w.documentPath, w.outputRoot)
            begins == /\ Len(prefix) <= Len(base)
                      /\ \A i \in 1..Len(prefix) : base[i] = prefix[i]
        IN  w.filename = (IF begins THEN base ELSE prefix \o base)

\* A base filename that begins with the whole prefix "code-" is kept as it is.
C9_Witness ==
    \E k \in Writes :
        LET w == written[k] IN
        /\ w.outputRoot = code
        /\ folderPrefixOf(w.source, w.documentPath, w.outputRoot) = code \o <<DASH>>
        /\ baseFilenameOf(w.source, w.documentPath) = code \o <<DASH>> \o api \o md
        /\ w.filename = code \o <<DASH>> \o api \o md

\* The file beside filePath, in the same folder, that is called name.
Sibling(filePath, name) ==
    LET cut == CHOOSE i \in 0..Len(filePath) :
                   /\ i = 0 \/ filePath[i] \in {SLASH, BACKSLASH}
                   /\ \A j \in (i + 1)..Len(filePath) : filePath[j] \notin {SLASH, BACKSLASH}
    IN  SubSeq(filePath, 1, cut) \o name

\* C10: building the location of a file of the same folder whose base
\* filename is the filename just produced gives that filename again.
C10_Idempotent ==
    \A k \in Writes :
        LET w == written[k] IN
        buildOutputLocation(Sibling(w.source, w.filename), w.documentPath,
                            w.outputRoot, DEFAULT_OUTPUT_DIRECTORY_PATH).filename
            = w.filename

output == <<"o", "u", "t", "p", "u", "t">>

\* C12 as stated: the directory is the base output directory, "/" and
\* outputRoot ("./output/code") when outputRoot is present, and the base
\* output directory unchanged when it is absent.
C12_DirectoryLiteral ==
    \A k \in Writes :
        LET w == written[k] IN
        w.directory =
            (IF w.outputRoot # undefined /\ Len(w.outputRoot) > 0
             THEN <<".", "/">> \o output \o <<SLASH>> \o w.outputRoot
             ELSE <<".", "/">> \o output)

\* C12, amended: with an outputRoot the directory is path.join's normalized
\* spelling of base/outputRoot ("output/code" for "./output" and "code", "."
\* for the root ".."); without one it is the base output directory unchanged.
C12_DirectoryJoined ==
    \A k \in Writes :
        LET w == written[k] IN
        w.directory =
            (IF w.outputRoot = undefined \/ Len(w.outputRoot) = 0
             THEN <<".", "/">> \o output
             ELSE IF w.outputRoot = <<".", ".">> THEN <<".">>
             ELSE output \o <<SLASH>> \o w.outputRoot)

C12_Witness ==
    \E k \in Writes :
        /\ written[k].outputRoot = code
        /\ written[k].directory = output \o <<SLASH>> \o code

\* C13: the filename holds neither "/" nor "\".
C13_NoSeparatorInFilename ==
    \A k \in Writes :
        \A i \in 1..Len(written[k].filename) :
            written[k].filename[i] \notin {SLASH, BACKSLASH}

\* C14: every write target is options.out/<name> or
\* options.out/<name>/<name>.
C14_OneLevel ==
    \A k \in Writes :
        LET t == split(written[k].target, SLASH) IN
        /\ Len(t) \in {2, 3}
        /\ t[1] = output
        /\ \A i \in 2..Len(t) : t[i] \notin {<<>>, <<".">>, <<".", ".">>}

\* C15: the location of a file path written with backslashes is the location
\* of the same path written with forward slashes.
C15_BackslashFilePath ==
    \A k \in Writes :
        LET w == written[k]
            forward == buildOutputLocation(Forward(w.source), w.documentPath,
                                           w.outputRoot, DEFAULT_OUTPUT_DIRECTORY_PATH)
        IN  /\ forward.directory = w.directory
            /\ forward.filename = w.filename

C15_Witness ==
    \E k \in Writes :
        LET w == written[k] IN
        /\ w.documentPath = docs \o <<SLASH>> \o code
        /\ w.source = docs \o <<BACKSLASH>> \o code \o <<BACKSLASH>> \o api
                      \o <<BACKSLASH>> \o api \o md
        /\ w.filename = code \o <<DASH>> \o api \o <<DASH>> \o api \o md

\* C16 as stated: a documentation path with no non-empty segment resolves to
\* undefined, as "docs" does.
C16_EmptyIsAbsent ==
    \A i \in Configs :
        Len(SegmentsOf(pathConfigs[i].documentPath)) = 0
            => pathConfigs[i].outputRoot = undefined

\* C16, amended: such a path resolves to the empty string.
C16_EmptyIsEmptyString ==
    \A i \in Configs :
        Len(SegmentsOf(pathConfigs[i].documentPath)) = 0
            => pathConfigs[i].outputRoot = <<>>

C16_Witness ==
    \E i \in Configs :
        /\ pathConfigs[i].documentPath = <<SLASH, SLASH>>
        /\ pathConfigs[i].outputRoot = <<>>

----------------------------------------------------------------------------
(* Properties of fetchAllFiles                                             *)

\* The directories of a subtree in the order a depth-first walk meets them,
\* each with its path and the answer to a request for it.
RECURSIVE DirectoriesIn(_, _)
DirectoriesIn(directoryPath, entries) ==
    IF Len(entries) = 0 THEN <<>>
    ELSE LET entry == Head(entries)
             path == directoryPath \o <<"/">> \o entry.name
         IN  (IF entry.type = "dir"
              THEN <<[path |-> path, error |-> entry.error]>>
                   \o DirectoriesIn(path, entry.contents)
              ELSE <<>>)
             \o DirectoriesIn(directoryPath, Tail(entries))

Directories ==
    <<[path |-> <<"d", "o", "c", "s">>, error |-> tree.error]>>
    \o DirectoriesIn(<<"d", "o", "c", "s">>, tree.contents)

\* The paths of the regular files named *.md or *.mdx, depth first, in the
\* order of the listings.
RECURSIVE MarkdownIn(_, _)
MarkdownIn(directoryPath, entries) ==
    IF Len(entries) = 0 THEN <<>>
    ELSE LET entry == Head(entries)
             path == directoryPath \o <<"/">> \o entry.name
             n == Len(entry.name)
             named == \/ n >= 3 /\ SubSeq(entry.name, n - 2, n) = <<".", "m", "d">>
                      \/ n >= 4 /\ SubSeq(entry.name, n - 3, n) = <<".", "m", "d", "x">>
         IN  (IF entry.type = "dir" THEN MarkdownIn(path, entry.contents)
              ELSE IF entry.type = "file" /\ named THEN <<path>>
              ELSE <<>>)
             \o MarkdownIn(directoryPath, Tail(entries))

PathsOf(items) == [i \in 1..Len(items) |-> items[i].path]

AllListingsSucceed == \A i \in 1..Len(Directories) : Directories[i].error = <<>>

\* The first directory, in the order of the walk, whose listing fails with a
\* status other than 404; 0 if there is none.
FirstFatal ==
    LET fatal == {i \in 1..Len(Directories) :
                      /\ Directories[i].error # <<>>
                      /\ Directories[i].error[1].status # 404}
    IN  IF fatal = {} THEN 0 ELSE CHOOSE i \in fatal : \A j \in fatal : i <= j

\* C17: when every listing succeeds, fetchAllFiles ends by returning the *.md
\* and *.mdx files of the subtree, each once and nothing else, depth first in
\* listing order, after one listing request per directory.
C17_AllMarkdownOnce ==
    (AllListingsSucceed /\ stack = <<>>) =>
        /\ outcome.kind = "returned"
        /\ PathsOf(outcome.files) = MarkdownIn(<<"d", "o", "c", "s">>, tree.contents)
        /\ \A i, j \in 1..Len(outcome.files) :
               i # j => outcome.files[i].path # outcome.files[j].path
        /\ \A i \in 1..Len(outcome.files) : outcome.files[i].type = "file"
        /\ requests = [i \in 1..Len(Directories) |-> Directories[i].path]

\* Two files of two levels are returned and a directory is listed below the top one.
C17_Witness ==
    /\ AllListingsSucceed /\ stack = <<>>
    /\ Len(requests) = 2
    /\ Len(outcome.files) = 2
    /\ Len(outcome.files[1].path) > Len(outcome.files[2].path)

\* C18: a listing that fails with 404 counts as an empty directory, with a
\* warning, and the walk goes on; a listing that fails with another status
\* ends the whole walk with that error.
C18_NotFoundSkipped ==
    stack = <<>> =>
        IF FirstFatal = 0
        THEN /\ outcome.kind = "returned"
             /\ PathsOf(outcome.files) = MarkdownIn(<<"d", "o", "c", "s">>, tree.contents)
             /\ requests = [i \in 1..Len(Directories) |-> Directories[i].path]
             /\ warnings = PathsOf(SelectSeq(Directories, LAMBDA d : d.error # <<>>))
        ELSE /\ outcome.kind = "thrown"
             /\ outcome.error = Directories[FirstFatal].error
             /\ requests = [i \in 1..FirstFatal |-> Directories[i].path]

\* A nested directory is missing and a file listed after it is returned.
C18_Witness ==
    /\ stack = <<>>
    /\ outcome.kind = "returned"
    /\ Len(warnings) = 1 /\ Len(warnings[1]) > 4
    /\ Len(outcome.files) = 1
    /\ Len(requests) = 2

----------------------------------------------------------------------------
(* Properties of run and of the catch of extract                           *)

\* C19 as stated: exit is called once at most, with 0 exactly when launchCLI
\* and extract both returned and with 1 otherwise.
C19_ExitCodeIff ==
    /\ Len(exits) <= 1
    /\ exits # <<>> =>
           /\ exits[1] = 0 <=> pc = "done"
           /\ exits[1] = 1 <=> pc # "done"

\* C19, amended: exit is called once at most.  When launchCLI returned the
\* options, run calls it with 0 exactly when extract returned and with 1 when
\* extract threw; when launchCLI threw, run calls it with 1.  When the command
\* line has no argument, --help or --version, the process is ended inside
\* launchCLI with 0, and when --repo is missing, with 1; extract is not
\* called.
C19_ExitCode ==
    /\ Len(exits) <= 1
    /\ exits # <<>> =>
           /\ pc \in {"done", "launchThrown", "extractThrown", "exited"}
           /\ pc = "done" => exits[1] = 0 /\ thrown = <<>>
           /\ pc \in {"launchThrown", "extractThrown"} => exits[1] = 1 /\ thrown # <<>>
           /\ pc = "exited" =>
                  /\ paths = <<>> /\ thrown = <<>>
                  /\ exits[1] = (IF \/ Len(argv) <= 2
                                    \/ \E i \in 1..Len(argv) :
                                           argv[i] \in {<<"-", "-", "h", "e", "l", "p">>,
                                                        <<"-", "-", "v", "e", "r", "s", "i", "o", "n">>}
                                 THEN 0 ELSE 1)
    /\ pc \in {"done", "extractThrown"} => Len(argv) > 2
    /\ pc = "done" => raised = <<>>

\* Every file was written and archived, and run has called exit(0); in
\* another run the archiver failed and run has called exit(1).
C19_Witness ==
    \/ /\ exits = <<0>> /\ pc = "done" /\ zip /\ Len(written) = 1
    \/ /\ exits = <<1>> /\ zip /\ Len(written) = 1
       /\ Len(written) = Len(allFilesToDownload)

\* C20: an error raised in the try of extract, by the listing or by a
\* download, is reported and leaves extract as the same error; the rate-limit
\* guidance is printed exactly for a status of 403.
C20_ReportedAndRethrown ==
    LET guided == \E i \in 1..Len(reported) : reported[i] = "export GITHUB_TOKEN" IN
    /\ raised # <<>> => pc \in {"catch", "extractThrown"}
    /\ (pc = "extractThrown" /\ raised # <<>>) =>
           /\ thrown = raised
           /\ \E i \in 1..Len(reported) : reported[i] = raised[1].message
           /\ guided <=> raised[1].status = 403
    /\ guided => (raised # <<>> /\ raised[1].status = 403)
    /\ (exits # <<>> /\ raised # <<>>) => exits = <<1>>

\* The listing succeeded and the download is refused with status 403: the
\* guidance is printed and the error thrown again.
C20_Witness ==
    /\ pc = "extractThrown"
    /\ Len(allFilesToDownload) = 1
    /\ raised = <<[message |-> "Rate limit exceeded", status |-> 403]>>
    /\ thrown = raised
    /\ \E i \in 1..Len(reported) : reported[i] = "export GITHUB_TOKEN"

----------------------------------------------------------------------------
(* Further properties of the two core functions                            *)

\* C27: a file path that does not begin with documentPath + "/" is taken
\* whole as the relative path: every segment before the last one is a folder
\* part, those of the documentation path included.
C27_FallbackWholePath ==
    \A k \in Writes :
        LET w == written[k]
            normalized == Forward(w.source)
            prefixed == /\ Len(normalized) > Len(w.documentPath)
                        /\ SubSeq(normalized, 1, Len(w.documentPath)) = w.documentPath
                        /\ normalized[Len(w.documentPath) + 1] = "/"
            pieces == split(normalized, "/")
            leading == SubSeq(pieces, 1, Len(pieces) - 1)
            base == pieces[Len(pieces)]
            present == w.outputRoot # undefined /\ Len(w.outputRoot) > 0
            segments == (IF present THEN <<w.outputRoot>> ELSE <<>>)
                        \o (IF present /\ Len(leading) > 0 /\ leading[1] = w.outputRoot
                            THEN <<>> ELSE leading)
            prefix == IF Len(segments) = 0 THEN <<>> ELSE join(segments, "-") \o <<"-">>
            begins == /\ Len(prefix) <= Len(base)
                      /\ \A i \in 1..Len(prefix) : base[i] = prefix[i]
        IN  ~prefixed =>
                /\ folderPartsOf(w.source, w.documentPath) = leading
                /\ w.filename = (IF begins THEN base ELSE prefix \o base)

\* The documentation path "docs/" does not begin the listed path
\* "docs/code/api.md": docs and code both become folder parts.
C27_Witness ==
    \E k \in Writes :
        LET w == written[k] IN
        /\ w.documentPath = <<"d", "o", "c", "s", "/">>
        /\ w.source = <<"d", "o", "c", "s", "/", "c", "o", "d", "e", "/", "a", "p", "i", ".", "m", "d">>
        /\ w.filename = <<"d", "o", "c", "s", "-", "c", "o", "d", "e", "-", "a", "p", "i", ".", "m", "d">>

\* C28: the location of a file is the same whether the documentation path is
\* given in canonical form or in another spelling that resolves to the same
\* output root.
C28_SpellingInsensitive ==
    \A k \in Writes :
        LET w == written[k]
            canonical == join(SegmentsOf(w.documentPath), "/")
            location == buildOutputLocation(w.source, canonical,
                                            computeOutputRoot(canonical),
                                            DEFAULT_OUTPUT_DIRECTORY_PATH)
        IN  computeOutputRoot(canonical) = w.outputRoot =>
                /\ location.directory = w.directory
                /\ location.filename = w.filename

\* C29: only a leading container segment is dropped.  With three or more
\* segments the root is the last two segments, with two segments after a
\* leading container it is the second segment, containers or not.
C29_LeadingContainerOnly ==
    \A i \in Configs :
        LET segs == SegmentsOf(pathConfigs[i].documentPath)
            n == Len(segs)
            root == pathConfigs[i].outputRoot
        IN  /\ n >= 3 => root = segs[n - 1] \o <<"-">> \o segs[n]
            /\ (n = 2 /\ segs[1] \in ReservedNames) => root = segs[2]
            /\ (n = 2 /\ segs[1] \notin ReservedNames) =>
                   root = segs[1] \o <<"-">> \o segs[2]

\* "docs/docs" resolves to "docs" and "docs/code/docs" to "code-docs".
C29_Witness ==
    \/ \E i \in Configs :
           /\ SegmentsOf(pathConfigs[i].documentPath) = <<docs, docs>>
           /\ pathConfigs[i].outputRoot = docs
    \/ \E i \in Configs :
           /\ SegmentsOf(pathConfigs[i].documentPath) = <<docs, code, docs>>
           /\ pathConfigs[i].outputRoot = code \o <<"-">> \o docs

-----------------------------------------------------------------------------
(* Properties of a whole run of extract                                    *)

\* The number of files listed under the first i documentation paths.
RECURSIVE ListedUpTo(_)
ListedUpTo(i) == IF i = 0 THEN 0 ELSE ListedUpTo(i - 1) + Len(remote[i])

\* The documentation path under which the k-th discovered file was listed.
ListedUnder(k) ==
    CHOOSE i \in 1..Len(remote) : ListedUpTo(i - 1) < k /\ k <= ListedUpTo(i)

\* The configurations once computed: one per documentation path, in order.
ConfigsOfPaths ==
    [i \in 1..Len(paths) |->
        [documentPath |-> paths[i], outputRoot |-> computeOutputRoot(paths[i])]]

C21_TaggedWithListingPath ==
    /\ (fetched > 0 \/ written # <<>>) => pathConfigs = ConfigsOfPaths
    /\ \A k \in 1..Len(allFilesToDownload) :
           LET i == ListedUnder(k) file == allFilesToDownload[k] IN
           /\ file.path = remote[i][k - ListedUpTo(i - 1)]
           /\ file.documentPath = paths[i]
           /\ file.outputRoot = computeOutputRoot(paths[i])
    /\ \A k \in 1..Len(written) :
           LET i == ListedUnder(k)
               location == buildOutputLocation(remote[i][k - ListedUpTo(i - 1)], paths[i],
                                               computeOutputRoot(paths[i]), out)
           IN  /\ written[k].documentPath = paths[i]
               /\ written[k].outputRoot = computeOutputRoot(paths[i])
               /\ written[k].directory = location.directory
               /\ written[k].filename = location.filename

\* C21: the output root of every documentation path is computed once, before
\* any path is listed and before any file is processed; every discovered file
\* is located with the documentation path and the output root of the path it
\* was listed under, with several paths and with one path below another.
C21_RootsOnceFilesByListingPath ==
    /\ [](C21_TaggedWithListingPath)
    /\ [][pathConfigs' # pathConfigs =>
            (pathConfigs = <<>> /\ fetched = 0 /\ written = <<>> /\ fsCalls = <<>>)]_vars

\* Two paths, the second below the first: the same directory is listed twice
\* and each of the two files is located with its own path's root.
C21_Witness ==
    /\ pc = "done"
    /\ paths = <<docs, docs \o <<SLASH>> \o code>>
    /\ Len(written) = 2
    /\ written[1].documentPath = docs /\ written[1].outputRoot = undefined
    /\ written[2].documentPath = docs \o <<SLASH>> \o code /\ written[2].outputRoot = code
    /\ Contains(written[1].source, code)

\* The calls that write the first n discovered files, in discovery order.
RECURSIVE CallsWriting(_)
CallsWriting(n) ==
    IF n = 0 THEN <<>>
    ELSE LET file == allFilesToDownload[n]
             location == buildOutputLocation(file.path, file.documentPath,
                                             file.outputRoot, out)
         IN  CallsWriting(n - 1) \o
                 <<fsCall("ensureDir", location.directory, <<>>),
                   fsCall("writeFile", pathJoin(location.directory, location.filename), <<>>)>>

\* The calls of one operation among the file system calls made so far.
CallsOf(op) == {i \in 1..Len(fsCalls) : fsCalls[i].op = op}

\* C22: in a run that does not fail and finds n >= 1 files, the output
\* directory is emptied exactly once, before the first write; there are exactly
\* n writes, one per discovered file in discovery order, each right after the
\* creation of that file's directory.
C22_EmptiedOnceThenWrittenInOrder ==
    LET n == Len(allFilesToDownload) IN
    /\ pc = "downloading" =>
           fsCalls = <<fsCall("emptyDir", out, <<>>)>> \o CallsWriting(Len(written))
    /\ (pc = "done" /\ raised = <<>> /\ thrown = <<>> /\ n >= 1) =>
           /\ Len(written) = n
           /\ SubSeq(fsCalls, 1, 1 + 2 * n) =
                  <<fsCall("emptyDir", out, <<>>)>> \o CallsWriting(n)
           /\ CallsOf("emptyDir") = {1}
           /\ CallsOf("writeFile") = {1 + 2 * k : k \in 1..n}
           /\ CallsOf("ensureDir") = {2 * k : k \in 1..n}

\* Two files are found and the run ends without an error: five calls, the
\* emptying first.
C22_Witness ==
    /\ pc = "done"
    /\ raised = <<>>
    /\ Len(allFilesToDownload) = 2
    /\ ~zip
    /\ Len(fsCalls) = 5
    /\ fsCalls[1].op = "emptyDir"
    /\ fsCalls[4].op = "ensureDir" /\ fsCalls[4].path = written[2].directory
    /\ fsCalls[5].op = "writeFile" /\ fsCalls[5].path = written[2].target

\* The run is over: extract returned or threw.
ExtractOver == pc \in {"done", "extractThrown"}

\* createZipArchive was called: it returned, or it raised its error.
ArchiveStarted == CallsOf("createZipArchive") # {} \/ raised = <<ArchiveError>>

\* Every documentation path was listed and every discovered file written.
AllWritten ==
    /\ pathConfigs # <<>>
    /\ fetched = Len(pathConfigs)
    /\ Len(written) = Len(allFilesToDownload)
    /\ raised \in {<<>>, <<ArchiveError>>}

\* path lies inside the directory, both resolved.
Inside(path, directory) ==
    IF directory = <<SLASH>> THEN startsWith(path, <<SLASH>>)
    ELSE startsWith(path, directory \o <<SLASH>>)

\* What holds of every call of createZipArchive: it is the last call, made
\* after the last write, of options.out and to the sibling <basename>.zip.
ArchiveCallsAfterLastWrite ==
    \A i \in CallsOf("createZipArchive") :
        /\ i = Len(fsCalls)
        /\ Len(written) = Len(allFilesToDownload)
        /\ Len(fsCalls) = 2 + 2 * Len(written)
        /\ fsCalls[i].path = out
        /\ fsCalls[i].to = pathJoin(pathDirname(pathResolve(out)),
                                    pathBasename(out) \o <<".", "z", "i", "p">>)

\* C23 as stated: an archive is created if and only if options.zip is set and
\* every discovered file was downloaded and written without error; it is
\* created after the last write, of options.out, as
\* <parent of options.out>/<basename of options.out>.zip, outside the
\* directory that is archived.
C23_ArchiveIffAllWritten ==
    /\ ExtractOver => (ArchiveStarted <=> (zip /\ AllWritten))
    /\ ArchiveCallsAfterLastWrite
    /\ \A i \in CallsOf("createZipArchive") : ~Inside(fsCalls[i].to, pathResolve(out))

\* C23, amended: an archive is created if and only if options.zip is set, at
\* least one file was discovered and every discovered file was written without
\* error; the archive is outside the archived directory unless that directory
\* is the root of the file system.
C23_ArchiveIffSomeAndAllWritten ==
    /\ ExtractOver =>
           (ArchiveStarted <=> (zip /\ AllWritten /\ Len(allFilesToDownload) >= 1))
    /\ ArchiveCallsAfterLastWrite
    /\ \A i \in CallsOf("createZipArchive") :
           Inside(fsCalls[i].to, pathResolve(out)) <=> pathResolve(out) = <<SLASH>>

\* --out out/docs/ --zip with one file found: the archive is out/docs.zip of
\* the working directory.
C23_Witness ==
    /\ pc = "done"
    /\ zip
    /\ Len(written) >= 1
    /\ out = <<"o", "u", "t", "/">> \o docs \o <<SLASH>>
    /\ fsCalls[Len(fsCalls)] =
           fsCall("createZipArchive", out,
                  cwd \o <<"/", "o", "u", "t", "/">> \o docs \o <<".", "z", "i", "p">>)

\* A listing raised: the error came before every path was listed.
ListingRaised == raised # <<>> /\ pathConfigs # <<>> /\ fetched < Len(pathConfigs)

\* Every path was listed and together they yield no file.
NothingFound ==
    pathConfigs # <<>> /\ fetched = Len(pathConfigs) /\ Len(allFilesToDownload) = 0

\* C25: the output directory is emptied only after every documentation path
\* was listed without error and at least one file was found; when a listing
\* raises or no file is found there is no emptyDir, no write and no archive,
\* and with no file found extract returns with a warning and run exits with 0.
C25_NothingTouchedBeforeFilesFound ==
    /\ fsCalls # <<>> =>
           /\ pathConfigs # <<>>
           /\ fetched = Len(pathConfigs)
           /\ Len(allFilesToDownload) >= 1
           /\ fsCalls[1] = fsCall("emptyDir", out, <<>>)
    /\ (ListingRaised \/ NothingFound) => (fsCalls = <<>> /\ written = <<>>)
    /\ (NothingFound /\ pc = "done") =>
           /\ raised = <<>>
           /\ thrown = <<>>
           /\ warnings = <<"No .md or .mdx files found">>
           /\ exits \in {<<>>, <<0>>}
    /\ (ListingRaised /\ exits # <<>>) => exits = <<1>>

\* Two paths are listed, neither has a file, --zip is set: the run exits
\* with 0 and the file system was not touched.
C25_Witness ==
    /\ pc = "done"
    /\ Len(paths) = 2
    /\ NothingFound
    /\ zip
    /\ fsCalls = <<>>
    /\ exits = <<0>>

\* The download or the write of a discovered file raised.
DownloadRaised ==
    /\ raised # <<>>
    /\ raised[1] \in ContentErrors \cup {WriteFileError}
    /\ pathConfigs # <<>>
    /\ fetched = Len(pathConfigs)
    /\ Len(allFilesToDownload) >= 1

\* What holds once the k-th file failed, k = Len(written) + 1.
StoppedAtFailedFile ==
    DownloadRaised =>
        /\ Len(written) < Len(allFilesToDownload)
        /\ pc \in {"catch", "extractThrown"}
        /\ fsCalls = <<fsCall("emptyDir", out, <<>>)>> \o CallsWriting(Len(written))
        /\ CallsOf("createZipArchive") = {}
        /\ pc = "extractThrown" => thrown = raised
        /\ exits \in {<<>>, <<1>>}

\* C26: when the download or the write of the k-th discovered file fails,
\* extract stops there: no later file is fetched or written, no archive is
\* created, the error is thrown again, and the files 1..k-1 stay written in
\* the emptied output directory.
C26_StopsAtFailedFileNoRollback ==
    /\ [](StoppedAtFailedFile)
    /\ [][(raised' # <<>>) => (written' = written /\ fsCalls' = fsCalls)]_vars

\* The second of two files fails with --zip set: the first stays written,
\* there is no archive and the error is thrown again.
C26_Witness ==
    /\ pc = "extractThrown"
    /\ zip
    /\ Len(allFilesToDownload) = 2
    /\ Len(written) = 1
    /\ raised = <<WriteFileError>>
    /\ thrown = raised
    /\ Len(fsCalls) = 3
    /\ fsCalls[3] = fsCall("writeFile", written[1].target, <<>>)

-----------------------------------------------------------------------------
(* Properties of parseRepoUrl                                              *)

\* The letters of the inputs that have two cases.
CasePairs ==
    {<<"H", "h">>, <<"T", "t">>, <<"P", "p">>, <<"S", "s">>, <<"G", "g">>, <<"I", "i">>,
     <<"U", "u">>, <<"B", "b">>, <<"C", "c">>, <<"O", "o">>, <<"M", "m">>}

EqualIgnoringCase(s, t) ==
    /\ Len(s) = Len(t)
    /\ \A i \in 1..Len(s) : s[i] = t[i] \/ <<s[i], t[i]>> \in CasePairs

\* s begins with the prefix; exactly, or in any case.
Begins(s, prefix, anyCase) ==
    /\ Len(prefix) <= Len(s)
    /\ IF anyCase THEN EqualIgnoringCase(SubSeq(s, 1, Len(prefix)), prefix)
       ELSE SubSeq(s, 1, Len(prefix)) = prefix

Ends(s, suffix, anyCase) ==
    /\ Len(suffix) <= Len(s)
    /\ IF anyCase THEN EqualIgnoringCase(SubSeq(s, Len(s) - Len(suffix) + 1, Len(s)), suffix)
       ELSE SubSeq(s, Len(s) - Len(suffix) + 1, Len(s)) = suffix

NoSlashIn(s) == \A i \in 1..Len(s) : s[i] # SLASH

\* What follows the host, as <owner>/<segment>, the trailing slash left out:
\* empty sequences when it is not of that form.
OwnerAndSegment(url, slashAllowed) ==
    LET rest == IF Begins(url, httpsPrefix, TRUE) /\ slashAllowed
                THEN SubSeq(url, Len(httpsPrefix) + 1, Len(url))
                ELSE SubSeq(url, Len(sshPrefix) + 1, Len(url))
        body == IF slashAllowed /\ Len(rest) > 0 /\ rest[Len(rest)] = SLASH
                THEN SubSeq(rest, 1, Len(rest) - 1) ELSE rest
        cuts == {i \in 2..(Len(body) - 1) :
                    /\ body[i] = SLASH
                    /\ NoSlashIn(SubSeq(body, 1, i - 1))
                    /\ NoSlashIn(SubSeq(body, i + 1, Len(body)))}
    IN  IF cuts = {} THEN <<>>
        ELSE LET i == CHOOSE j \in cuts : TRUE IN
             <<SubSeq(body, 1, i - 1), SubSeq(body, i + 1, Len(body))>>

\* The two forms of a repository URL, with the host exactly as written or in
\* any case.
HasUrlShape(url, anyCase) ==
    \/ Begins(url, httpsPrefix, anyCase) /\ OwnerAndSegment(url, TRUE) # <<>>
    \/ Begins(url, sshPrefix, anyCase) /\ OwnerAndSegment(url, FALSE) # <<>>

\* The owner and the last segment of a URL of one of the two forms.
PartsOf(url) ==
    IF Begins(url, httpsPrefix, TRUE) /\ OwnerAndSegment(url, TRUE) # <<>>
    THEN OwnerAndSegment(url, TRUE) ELSE OwnerAndSegment(url, FALSE)

\* name without one ".git" at its end, in any case; keepOne leaves a name
\* that is nothing but ".git" as it is.
DropDotGit(name, keepOne) ==
    IF Ends(name, dotGit, TRUE) /\ (~keepOne \/ Len(name) > Len(dotGit))
    THEN SubSeq(name, 1, Len(name) - Len(dotGit)) ELSE name

Parsed == pc = "start" /\ argv # <<>>
Rejected == pc = "extractThrown" /\ thrown = <<InvalidUrlError>>

\* C24 as stated: parseRepoUrl returns the owner and the repository for the
\* https form (with an optional ".git" or trailing slash) and for the ssh
\* form (with an optional ".git"), the repository never ending in ".git";
\* every other string is rejected with the invalid-URL error.
C24_TwoFormsOnlyNeverDotGit ==
    /\ Parsed =>
           /\ HasUrlShape(repo, FALSE)
           /\ repoInfo.owner = PartsOf(repo)[1]
           /\ ~Ends(repoInfo.repo, dotGit, FALSE)
    /\ Rejected => ~HasUrlShape(repo, FALSE)

\* C24, amended: the two forms are matched in any case of their letters;
\* the repository returned is the last segment without at most two ".git"
\* at its end (the first is kept when nothing else is left), so it may still
\* end in ".git" or be empty; every other string is rejected.
C24_TwoFormsAnyCaseTwoDotGits ==
    /\ Parsed =>
           /\ HasUrlShape(repo, TRUE)
           /\ repoInfo.ok
           /\ repoInfo.owner = PartsOf(repo)[1]
           /\ repoInfo.repo = DropDotGit(DropDotGit(PartsOf(repo)[2], TRUE), FALSE)
    /\ Rejected => (~HasUrlShape(repo, TRUE) /\ repoInfo = NoMatch)
    /\ pc = "extractThrown" => thrown = <<InvalidUrlError>>

\* The host in capitals and three ".git": accepted, and the repository
\* returned is "repo.git".
C24_Witness ==
    /\ Parsed
    /\ ~Begins(repo, httpsPrefix, FALSE) /\ Begins(repo, httpsPrefix, TRUE)
    /\ Ends(repo, dotGit \o dotGit \o dotGit, FALSE)
    /\ repoInfo.owner = <<"o", "w", "n", "e", "r">>
    /\ repoInfo.repo = <<"r", "e", "p", "o">> \o dotGit

-----------------------------------------------------------------------------
(* The core on any strings                                                 *)

\* The characters of the inputs and of what the core adds to them.
Characters ==
    {SLASH, BACKSLASH, DASH}
    \cup UNION {{w[i] : i \in 1..Len(w)} : w \in {docs, api, md, DEFAULT_OUTPUT_DIRECTORY_PATH}}

\* v is a string: a sequence of characters, which undefined is not.
IsString(v) == \A i \in 1..Len(v) : v[i] \in Characters

EndsInSeparator(s) == Len(s) > 0 /\ s[Len(s)] \in {SLASH, BACKSLASH}
SeparatorsOnly(s) == Len(s) > 0 /\ \A i \in 1..Len(s) : s[i] \in {SLASH, BACKSLASH}

\* C30: computeOutputRoot and buildOutputLocation return a value for every
\* combination of string arguments: the output root is a string or absent,
\* the directory and the filename are strings, also for empty strings,
\* strings of separators only, file paths without a separator and file paths
\* ending in a separator.
C30_CoreTotalOnStrings ==
    /\ pc = "listing" =>
           /\ Len(pathConfigs) = Len(paths)
           /\ \A i \in 1..Len(pathConfigs) :
                  \/ pathConfigs[i].outputRoot = undefined
                  \/ IsString(pathConfigs[i].outputRoot)
    /\ \A k \in 1..Len(written) :
           /\ IsString(written[k].directory)
           /\ IsString(written[k].filename)
           /\ written[k].source = <<>> =>
                  written[k].filename =
                      (IF Truthy(written[k].outputRoot)
                       THEN written[k].outputRoot \o <<DASH>> ELSE <<>>)

\* A file path ending in a separator, a documentation path of one separator,
\* an empty outputRoot and an empty output directory: the filename is the
\* folder prefix alone.
C30_Witness ==
    /\ pc = "listing"
    /\ SeparatorsOnly(paths[1])
    /\ pathConfigs[1].outputRoot = <<>>
    /\ Len(written) = 1
    /\ written[1].source = docs \o <<SLASH>>
    /\ written[1].outputRoot = <<>>
    /\ out = <<>>
    /\ written[1].directory = <<>>
    /\ written[1].filename = docs \o <<DASH>>

====
